---- MODULE Spec2Model ----
(***************************************************************************)
(* A model of the file-viewer workspace: the Resource Store kept by App    *)
(* (document list, selection snapshot, object URLs), the FileViewer shell  *)
(* (view/edit mode, editor dispatch) and the asynchronous loads and saves  *)
(* of the three editors.                                                   *)
(*                                                                         *)
(* Object URLs are numbered in the order URL.createObjectURL returns them. *)
(* The content decoded from a resource is represented by the URL it was    *)
(* read from: 0 is the component's initial (empty) content and Blank is    *)
(* the grid built by createEmptySpreadsheet.                               *)
(* React state updates made by one handler are applied together and the    *)
(* effects of the following render (mount, unmount, effect re-run) are     *)
(* part of the same step.                                                  *)
(***************************************************************************)
EXTENDS Integers, Sequences, FiniteSets, Bags, TLC

\* ---------------------------------------------------------------- bounds
MaxClock == 1      \* Date.now() takes the readings 0..MaxClock
MaxFiles == 2      \* records in the document list
MaxUrls == 3       \* object URLs a run may create
MaxLoads == 2      \* loads in flight
MaxSaves == 1      \* asynchronous saves in flight
MaxUploads == 1    \* handleFileUpload invocations suspended at file.text()
MaxGridSteps == 3   \* grid mutations (addRow, addColumn, deleteRow, cell edits) in a run
MaxAnnotations == 2 \* annotations placed in a PDFEditor session
MaxObjects == 2     \* shapes and strokes added to one fabric canvas
MaxTurns == 1       \* quarter turns given to one object of the canvas

\* ---------------------------------------------------------------- strings
\* The characters of the string literals the model uses.
Chars(s) ==
  CASE s = "application/pdf" -> <<"a", "p", "p", "l", "i", "c", "a", "t", "i", "o", "n", "/", "p", "d", "f">>
  [] s = "image/png" -> <<"i", "m", "a", "g", "e", "/", "p", "n", "g">>
  [] s = "text/csv" -> <<"t", "e", "x", "t", "/", "c", "s", "v">>
  [] s = "text/plain" -> <<"t", "e", "x", "t", "/", "p", "l", "a", "i", "n">>
  [] s = "application/vnd.ms-excel" -> <<"a", "p", "p", "l", "i", "c", "a", "t", "i", "o", "n", "/", "v", "n", "d", ".", "m", "s", "-", "e", "x", "c", "e", "l">>
  [] s = "application/x-sheet" -> <<"a", "p", "p", "l", "i", "c", "a", "t", "i", "o", "n", "/", "x", "-", "s", "h", "e", "e", "t">>
  [] s = "image/pdf" -> <<"i", "m", "a", "g", "e", "/", "p", "d", "f">>
  [] s = "" -> <<>>
  [] s = "a.pdf" -> <<"a", ".", "p", "d", "f">>
  [] s = "b.csv" -> <<"b", ".", "c", "s", "v">>
  [] s = "c.png" -> <<"c", ".", "p", "n", "g">>
  [] s = "d.txt" -> <<"d", ".", "t", "x", "t">>
  [] s = "e.xlsx" -> <<"e", ".", "x", "l", "s", "x">>
  [] s = "f.xls" -> <<"f", ".", "x", "l", "s">>
  [] s = "csv" -> <<"c", "s", "v">>
  [] s = "pdf" -> <<"p", "d", "f">>
  [] s = "sheet" -> <<"s", "h", "e", "e", "t">>
  [] s = "excel" -> <<"e", "x", "c", "e", "l">>
  [] s = "image" -> <<"i", "m", "a", "g", "e">>
  [] s = "text" -> <<"t", "e", "x", "t">>
  [] s = ".xlsx" -> <<".", "x", "l", "s", "x">>
  [] s = ".xls" -> <<".", "x", "l", "s">>
  [] s = ".csv" -> <<".", "c", "s", "v">>

\* String.prototype.includes
includes(s, sub) ==
  LET cs == Chars(s)
      cb == Chars(sub)
  IN \E i \in 1..(Len(cs) - Len(cb) + 1) : SubSeq(cs, i, i + Len(cb) - 1) = cb

\* String.prototype.endsWith
endsWith(s, suf) ==
  LET cs == Chars(s)
      cf == Chars(suf)
  IN /\ Len(cs) >= Len(cf)
     /\ SubSeq(cs, Len(cs) - Len(cf) + 1, Len(cs)) = cf

\* ---------------------------------------------------------------- dispatch
\* FileViewer.renderEditor without its image branch.
renderEditor_NoImage(type, name) ==
  IF includes(type, "pdf") THEN "PDFEditor"
  ELSE IF \/ includes(type, "sheet")
          \/ includes(type, "excel")
          \/ endsWith(name, ".xlsx")
          \/ endsWith(name, ".xls")
          \/ endsWith(name, ".csv") THEN "ExcelEditor"
  ELSE "TextArea"

\* FileViewer.renderEditor: the editor component rendered for (type, name).
renderEditor(type, name) ==
  IF includes(type, "pdf") THEN "PDFEditor"
  ELSE IF \/ includes(type, "sheet")
          \/ includes(type, "excel")
          \/ endsWith(name, ".xlsx")
          \/ endsWith(name, ".xls")
          \/ endsWith(name, ".csv") THEN "ExcelEditor"
  ELSE IF includes(type, "image") THEN "ImageEditor"
  ELSE "TextArea"

\* FileViewer.renderViewer: the preview element rendered for (type, name).
renderViewer(type, name) ==
  IF includes(type, "image") THEN "img"
  ELSE IF includes(type, "pdf") THEN "iframe"
  ELSE IF \/ includes(type, "sheet")
          \/ includes(type, "excel")
          \/ endsWith(name, ".csv") THEN "table"
  ELSE "pre"

\* The document format a preview element of renderViewer displays, named as the
\* editing strategy of the same format.
Preview(element) ==
  CASE element = "iframe" -> "PaginatedDoc"
    [] element = "table" -> "Grid"
    [] element = "img" -> "Scene"
    [] element = "pre" -> "PlainText"

\* The editing strategy of the Session Dispatcher an editor component implements.
Strategy(component) ==
  CASE component = "PDFEditor" -> "PaginatedDoc"
    [] component = "ExcelEditor" -> "Grid"
    [] component = "ImageEditor" -> "Scene"
    [] component = "TextArea" -> "PlainText"

\* ---------------------------------------------------------------- state
VARIABLES
  now,            \* the reading of Date.now()
  nextUrl,        \* the number the next URL.createObjectURL returns
  revokeCount,    \* object URL -> number of URL.revokeObjectURL calls on it
  uploadedFiles,  \* App state: the document list
  selectedFile,   \* App state: <<>> (null) or <<snapshot record>>
  selObj,         \* index of the list record that is the same object as the snapshot, else 0
  uploads,        \* handleFileUpload invocations suspended at await file.text()
  isEditing,      \* FileViewer state
  editedContent,  \* FileViewer state
  editor,         \* state of the editor component mounted by FileViewer
  loads,          \* bag of editor loads that have not settled
  saves,          \* bag of editor saves that have not settled
  lastOp,         \* the handler or completion that ran last
  dType,          \* dispatcher input: declared type
  dName,          \* dispatcher input: file name
  dResult,        \* dispatcher output
  dView,          \* viewer output
  sheet,          \* ExcelEditor: the document behind file.url, [format, aoa]
  session,        \* ExcelEditor: "loading", "loaded" or "closed" (unmounted after a save)
  columns,        \* ExcelEditor state
  data,           \* ExcelEditor state
  exported,       \* the workbook the last ExcelEditor.handleSave gave to onSave, or NoDocument
  source,         \* the array of arrays whose unedited export sheet is, or NoDocument
  trail,          \* the handlers and completions of the ExcelEditor session, in order
  gridSteps,      \* grid mutations made so far
  pdfFile,        \* PDFEditor: the document behind file.url, [numPages, height]
  pdfEditor,      \* PDFEditor state and the height of its canvas
  rendering,      \* <<>> or <<the renderPage call that has not finished>>
  pdfSaves,       \* <<>> or <<the PDFEditor.handleSave call that has not finished>>
  pdfSaved,       \* <<>> or <<what PDFEditor.handleSave gave to onSave>>
  imageEditor     \* ImageEditor state and the fabric canvas it drives

vars == <<now, nextUrl, revokeCount, uploadedFiles, selectedFile, selObj, uploads,
          isEditing, editedContent, editor, loads, saves, lastOp, dType, dName, dResult, dView,
          sheet, session, columns, data, exported, source, trail, gridSteps,
          pdfFile, pdfEditor, rendering, pdfSaves, pdfSaved, imageEditor>>

storeVars == <<now, nextUrl, revokeCount, uploadedFiles, selectedFile, selObj, uploads,
               isEditing, editedContent, editor, loads, saves, lastOp>>

dispatchVars == <<dType, dName, dResult, dView>>

gridVars == <<sheet, session, columns, data, exported, source, trail, gridSteps>>

pdfVars == <<pdfFile, pdfEditor, rendering, pdfSaves, pdfSaved>>

sceneVars == <<imageEditor>>

engineVars == <<gridVars, pdfVars, sceneVars>>

Blank == -1

\* URL.createObjectURL / URL.revokeObjectURL on the table of revocation counts.
createObjectURL(rc, url) == [h \in (DOMAIN rc) \cup {url} |-> IF h \in DOMAIN rc THEN rc[h] ELSE 0]

revokeObjectURL(rc, url) == [rc EXCEPT ![url] = @ + 1]

\* An object URL is live from its creation to its first revocation.
Live(url) == url \in DOMAIN revokeCount /\ revokeCount[url] = 0

\* The files a batch can hold (File.name, File.type, File.size, the text file.text() yields).
UploadFiles ==
  { [name |-> "a.pdf", type |-> "application/pdf", size |-> 1, text |-> ""],
    [name |-> "b.csv", type |-> "text/csv", size |-> 1, text |-> "a,b"],
    [name |-> "c.png", type |-> "image/png", size |-> 1, text |-> ""],
    [name |-> "d.txt", type |-> "text/plain", size |-> 1, text |-> "hello"] }

\* Blob.size of an exported document.
SaveSizes == {2, 3}

\* `${Date.now()}-${i}`: decimal digits, a dash, decimal digits; one string per pair.
FileId(t, i) == <<t, i>>

NoOp == [op |-> "init", ok |-> TRUE]

Op(name, ok) == [op |-> name, ok |-> ok]

\* ---------------------------------------------------------------- editors
\* An editor component right after mount (useState initial values).
InitialEditor(kind) ==
  [kind |-> kind, data |-> 0, worksheetName |-> 0, pdfDoc |-> 0, objects |-> 0]

LoadingEditors == {"PDFEditor", "ExcelEditor", "ImageEditor"}

\* The component FileViewer renders in its editor slot.
EditorFor(sel, editing) ==
  IF sel = <<>> \/ ~editing THEN "none" ELSE renderEditor(sel[1].type, sel[1].name)

\* Unmounting a component and disposing a canvas orphan the loads they started:
\* React drops the state updates of an unmounted component and the fromURL
\* callback returns when its canvas has no contextContainer, so an orphaned
\* completion changes nothing and is no longer tracked.
Orphan(lds) == EmptyBag

StartLoad(lds, kind, file) ==
  lds (+) SetToBag({[kind |-> kind, id |-> file.id, url |-> file.url]})

\* The render after a state change: unmount and mount when the component in the
\* editor slot changes, otherwise the effects whose dependencies changed.
Rerender(sel2, editing2, objChanged) ==
  LET want == EditorFor(sel2, editing2)
  IN IF want # editor.kind
       THEN [editor |-> InitialEditor(want),
             loads |-> IF want \in LoadingEditors
                         THEN StartLoad(Orphan(loads), want, sel2[1])
                         ELSE Orphan(loads)]
     ELSE IF want = "ExcelEditor" /\ objChanged
       THEN [editor |-> editor, loads |-> StartLoad(loads, want, sel2[1])]
     ELSE IF want = "PDFEditor" /\ sel2[1].url # selectedFile[1].url
       THEN [editor |-> editor, loads |-> StartLoad(loads, want, sel2[1])]
     ELSE IF want = "ImageEditor" /\ sel2[1].url # selectedFile[1].url
       THEN [editor |-> [editor EXCEPT !.objects = 0],
             loads |-> StartLoad(Orphan(loads), want, sel2[1])]
     ELSE [editor |-> editor, loads |-> loads]

\* ---------------------------------------------------------------- upload
IsTextFile(f) == includes(f.type, "text") \/ endsWith(f.name, ".csv")

NewFile(f, t, i, url, content) ==
  [id |-> FileId(t, i), name |-> f.name, type |-> f.type, size |-> f.size,
   url |-> url, content |-> content]

\* The loop of handleFileUpload from file i (1-based) up to its next await or its end.
RECURSIVE UploadLoop(_, _, _, _, _)
UploadLoop(files, i, newFiles, url, rc) ==
  IF i > Len(files)
    THEN [done |-> TRUE, files |-> files, i |-> i, newFiles |-> newFiles, nextUrl |-> url, rc |-> rc]
  ELSE IF IsTextFile(files[i])
    THEN [done |-> FALSE, files |-> files, i |-> i, newFiles |-> newFiles,
          nextUrl |-> url + 1, rc |-> createObjectURL(rc, url)]
  ELSE UploadLoop(files, i + 1,
                  Append(newFiles, NewFile(files[i], now, i - 1, url, "")),
                  url + 1, createObjectURL(rc, url))

RECURSIVE UrlsAwaited(_)
UrlsAwaited(ups) ==
  IF ups = {} THEN 0
  ELSE LET u == CHOOSE x \in ups : TRUE
       IN (Len(u.files) - u.i) + UrlsAwaited(ups \ {u})

RECURSIVE FilesAwaited(_)
FilesAwaited(ups) ==
  IF ups = {} THEN 0
  ELSE LET u == CHOOSE x \in ups : TRUE
       IN Len(u.files) + FilesAwaited(ups \ {u})

\* Object URLs that may still be created without passing MaxUrls.
FreeUrls == MaxUrls - (nextUrl - 1) - UrlsAwaited(uploads) - BagCardinality(saves)

\* The FileLists handed to handleFileUpload: one or two files, each either a file
\* whose text is read (b.csv) or one that is pushed without an await (a.pdf).
BatchFiles == {f \in UploadFiles : f.name \in {"a.pdf", "b.csv"}}

Batches == {<<f>> : f \in BatchFiles} \cup {<<f, g>> : f, g \in BatchFiles}

UploadProgress(r) ==
  /\ nextUrl' = r.nextUrl
  /\ revokeCount' = r.rc
  /\ IF r.done
       THEN /\ uploadedFiles' = uploadedFiles \o r.newFiles
            /\ uploads' = uploads \ {u \in uploads : u.url = r.from}
       ELSE /\ uploadedFiles' = uploadedFiles
            /\ uploads' = (uploads \ {u \in uploads : u.url = r.from})
                            \cup {[files |-> r.files, i |-> r.i, newFiles |-> r.newFiles,
                                   url |-> r.nextUrl - 1]}

\* App.handleFileUpload up to its first await.
handleFileUpload(files) ==
  /\ Len(files) <= FreeUrls
  /\ Len(uploadedFiles) + Len(files) + FilesAwaited(uploads) <= MaxFiles
  /\ LET r == UploadLoop(files, 1, <<>>, nextUrl, revokeCount)
     IN /\ r.done \/ Cardinality(uploads) < MaxUploads
        /\ UploadProgress(r @@ [from |-> 0])
  /\ lastOp' = Op("upload", TRUE)
  /\ UNCHANGED <<now, selectedFile, selObj, isEditing, editedContent, editor, loads, saves>>
  /\ UNCHANGED dispatchVars
  /\ UNCHANGED engineVars

\* App.handleFileUpload resumed when file.text() settles (textOk: fulfilled or rejected).
handleFileUploadResume(u, textOk) ==
  /\ u \in uploads
  /\ LET f == u.files[u.i]
         pushed == Append(u.newFiles,
                          NewFile(f, now, u.i - 1, u.url, IF textOk THEN f.text ELSE ""))
         r == UploadLoop(u.files, u.i + 1, pushed, nextUrl, revokeCount)
     IN UploadProgress(r @@ [from |-> u.url])
  /\ lastOp' = Op("uploadResume", textOk)
  /\ UNCHANGED <<now, selectedFile, selObj, isEditing, editedContent, editor, loads, saves>>
  /\ UNCHANGED dispatchVars
  /\ UNCHANGED engineVars

\* The clock read by Date.now() advances.
Tick ==
  /\ now < MaxClock
  /\ now' = now + 1
  /\ lastOp' = Op("tick", TRUE)
  /\ UNCHANGED <<nextUrl, revokeCount, uploadedFiles, selectedFile, selObj, uploads,
                 isEditing, editedContent, editor, loads, saves>>
  /\ UNCHANGED dispatchVars
  /\ UNCHANGED engineVars

\* ---------------------------------------------------------------- Resource Store
\* The state updates of the handlers App passes down, followed by the render.
Commit(files2, sel2, selObj2, editing2, objChanged) ==
  LET r == Rerender(sel2, editing2, objChanged)
  IN /\ BagCardinality(r.loads) <= MaxLoads
     /\ uploadedFiles' = files2
     /\ selectedFile' = sel2
     /\ selObj' = selObj2
     /\ isEditing' = editing2
     /\ editor' = r.editor
     /\ loads' = r.loads

\* App.handleFileSelect, called by the Sidebar with the i-th record of the list.
handleFileSelect(i) ==
  /\ i \in 1..Len(uploadedFiles)
  /\ Commit(uploadedFiles, <<uploadedFiles[i]>>, i, isEditing, selObj # i)
  /\ lastOp' = Op("select", TRUE)
  /\ UNCHANGED <<now, nextUrl, revokeCount, uploads, editedContent, saves>>
  /\ UNCHANGED dispatchVars
  /\ UNCHANGED engineVars

\* App.handleCloseViewer, the X button of FileViewer.
handleCloseViewer ==
  /\ selectedFile # <<>>
  /\ Commit(uploadedFiles, <<>>, 0, isEditing, TRUE)
  /\ lastOp' = Op("close", TRUE)
  /\ UNCHANGED <<now, nextUrl, revokeCount, uploads, editedContent, saves>>
  /\ UNCHANGED dispatchVars
  /\ UNCHANGED engineVars

\* prev.filter(f => f.id !== id)
RECURSIVE FilterOut(_, _)
FilterOut(files, id) ==
  IF files = <<>> THEN <<>>
  ELSE IF Head(files).id = id THEN FilterOut(Tail(files), id)
  ELSE <<Head(files)>> \o FilterOut(Tail(files), id)

\* prev.find(f => f.id === id): the index of the first match, 0 for undefined.
Find(files, id) ==
  IF \E i \in 1..Len(files) : files[i].id = id
    THEN CHOOSE i \in 1..Len(files) :
           /\ files[i].id = id
           /\ \A j \in 1..(i - 1) : files[j].id # id
    ELSE 0

\* App.handleFileDelete
handleFileDelete(id) ==
  LET found == Find(uploadedFiles, id)
      cleared == selectedFile # <<>> /\ selectedFile[1].id = id
      before == Cardinality({j \in 1..selObj : uploadedFiles[j].id = id})
  IN /\ revokeCount' = IF found # 0
                         THEN revokeObjectURL(revokeCount, uploadedFiles[found].url)
                         ELSE revokeCount
     /\ Commit(FilterOut(uploadedFiles, id),
               IF cleared THEN <<>> ELSE selectedFile,
               IF cleared \/ selObj = 0 THEN 0 ELSE selObj - before,
               isEditing, cleared)
     /\ lastOp' = Op("delete", found # 0)
     /\ UNCHANGED <<now, nextUrl, uploads, editedContent, saves>>
     /\ UNCHANGED dispatchVars
  /\ UNCHANGED engineVars

\* The revocations made while prev.map(...) walks the list in handleFileUpdate.
RECURSIVE RevokeMatching(_, _, _)
RevokeMatching(files, id, rc) ==
  IF files = <<>> THEN rc
  ELSE RevokeMatching(Tail(files), id,
                      IF Head(files).id = id THEN revokeObjectURL(rc, Head(files).url) ELSE rc)

\* App.handleFileUpdate(id, updatedFile) as seen from the render whose selectedFile
\* had the id closureSel (<<>> for null); size is updatedFile.size.
handleFileUpdate(id, closureSel, size) ==
  LET newUrl == nextUrl
      rebuilt == closureSel = id /\ selectedFile # <<>>
  IN [nextUrl |-> nextUrl + 1,
      revokeCount |-> RevokeMatching(uploadedFiles, id, createObjectURL(revokeCount, newUrl)),
      uploadedFiles |-> [i \in 1..Len(uploadedFiles) |->
                           IF uploadedFiles[i].id = id
                             THEN [uploadedFiles[i] EXCEPT !.url = newUrl, !.size = size]
                             ELSE uploadedFiles[i]],
      selectedFile |-> IF rebuilt
                         THEN <<[selectedFile[1] EXCEPT !.url = newUrl, !.size = size]>>
                         ELSE selectedFile,
      selObj |-> IF rebuilt THEN 0
                 ELSE IF selObj # 0 /\ uploadedFiles[selObj].id = id THEN 0
                 ELSE selObj,
      objChanged |-> rebuilt]

\* FileViewer.handleFileSave of the render that showed the file with this id:
\* onFileUpdate(file.id, editedFile); setIsEditing(false).
handleFileSave(id, size) ==
  LET u == handleFileUpdate(id, id, size)
  IN /\ nextUrl' = u.nextUrl
     /\ revokeCount' = u.revokeCount
     /\ Commit(u.uploadedFiles, u.selectedFile, u.selObj, FALSE, u.objChanged)

\* ---------------------------------------------------------------- FileViewer shell
\* FileViewer.handleEdit, the Edit button of the view-mode header.
handleEdit ==
  /\ selectedFile # <<>>
  /\ ~isEditing
  /\ Commit(uploadedFiles, selectedFile, selObj, TRUE, FALSE)
  /\ editedContent' = selectedFile[1].content
  /\ lastOp' = Op("edit", TRUE)
  /\ UNCHANGED <<now, nextUrl, revokeCount, uploads, saves>>
  /\ UNCHANGED dispatchVars
  /\ UNCHANGED engineVars

\* The Cancel button of the edit-mode header: setIsEditing(false).
Cancel ==
  /\ selectedFile # <<>>
  /\ isEditing
  /\ Commit(uploadedFiles, selectedFile, selObj, FALSE, FALSE)
  /\ lastOp' = Op("cancel", TRUE)
  /\ UNCHANGED <<now, nextUrl, revokeCount, uploads, editedContent, saves>>
  /\ UNCHANGED dispatchVars
  /\ UNCHANGED engineVars

\* ---------------------------------------------------------------- editor loads
Settled(l) == loads (-) SetToBag({l})

\* ExcelEditor.loadExcelData from its first await on; outcome is what fetch and
\* XLSX produce: "rows" (a sheet with a header row), "empty" (jsonData.length = 0)
\* or "throw" (the catch block runs createEmptySpreadsheet).
loadExcelData(l, outcome) ==
  /\ BagIn(l, loads)
  /\ l.kind = "ExcelEditor"
  /\ loads' = Settled(l)
  /\ editor' = IF outcome = "rows"
                 THEN [editor EXCEPT !.worksheetName = l.url, !.data = l.url]
               ELSE IF outcome = "empty"
                 THEN [editor EXCEPT !.worksheetName = l.url]
               ELSE [editor EXCEPT !.data = Blank]
  /\ lastOp' = Op("loadExcelData", outcome # "throw")
  /\ UNCHANGED <<now, nextUrl, revokeCount, uploadedFiles, selectedFile, selObj, uploads,
                 isEditing, editedContent, saves>>
  /\ UNCHANGED dispatchVars
  /\ UNCHANGED engineVars

\* PDFEditor.loadPDF from its await on: setPdfDoc, setTotalPages, setCurrentPage(1),
\* or the catch block, which sets nothing.
loadPDF(l, ok) ==
  /\ BagIn(l, loads)
  /\ l.kind = "PDFEditor"
  /\ loads' = Settled(l)
  /\ editor' = IF ok THEN [editor EXCEPT !.pdfDoc = l.url] ELSE editor
  /\ lastOp' = Op("loadPDF", ok)
  /\ UNCHANGED <<now, nextUrl, revokeCount, uploadedFiles, selectedFile, selObj, uploads,
                 isEditing, editedContent, saves>>
  /\ UNCHANGED dispatchVars
  /\ UNCHANGED engineVars

\* The callback ImageEditor passes to fabric.Image.fromURL: it returns when the
\* canvas was disposed, otherwise the image becomes the bottom object of the canvas.
fromURLCallback(l, ok) ==
  /\ BagIn(l, loads)
  /\ l.kind = "ImageEditor"
  /\ loads' = Settled(l)
  /\ editor' = IF ok THEN [editor EXCEPT !.objects = l.url] ELSE editor
  /\ lastOp' = Op("fromURL", ok)
  /\ UNCHANGED <<now, nextUrl, revokeCount, uploadedFiles, selectedFile, selObj, uploads,
                 isEditing, editedContent, saves>>
  /\ UNCHANGED dispatchVars
  /\ UNCHANGED engineVars

\* ---------------------------------------------------------------- editor saves
SaveOf(kind, id) == SetToBag({[kind |-> kind, id |-> id]})

\* ExcelEditor.handleSave: synchronous; ok is whether XLSX produced the workbook.
ExcelEditor_handleSave(ok, size) ==
  /\ editor.kind = "ExcelEditor"
  /\ ok => FreeUrls >= 1
  /\ IF ok
       THEN handleFileSave(selectedFile[1].id, size)
       ELSE UNCHANGED <<nextUrl, revokeCount, uploadedFiles, selectedFile, selObj,
                        isEditing, editor, loads>>
  /\ lastOp' = Op("ExcelEditor.handleSave", ok)
  /\ UNCHANGED <<now, uploads, editedContent, saves>>
  /\ UNCHANGED dispatchVars
  /\ UNCHANGED engineVars

\* PDFEditor.handleSave up to its first await.
PDFEditor_handleSave ==
  /\ editor.kind = "PDFEditor"
  /\ BagCardinality(saves) < MaxSaves
  /\ FreeUrls >= 1
  /\ saves' = saves (+) SaveOf("PDFEditor", selectedFile[1].id)
  /\ lastOp' = Op("PDFEditor.handleSave", TRUE)
  /\ UNCHANGED <<now, nextUrl, revokeCount, uploadedFiles, selectedFile, selObj, uploads,
                 isEditing, editedContent, editor, loads>>
  /\ UNCHANGED dispatchVars
  /\ UNCHANGED engineVars

\* PDFEditor.handleSave with onSave(blob) moved out of the try block: it runs after a failure too.
PDFEditor_handleSaveSettle_NoCatch(s, ok, size) ==
  /\ BagIn(s, saves)
  /\ s.kind = "PDFEditor"
  /\ saves' = saves (-) SetToBag({s})
  /\ handleFileSave(s.id, size)
  /\ lastOp' = Op("PDFEditor.handleSaveSettle", ok)
  /\ UNCHANGED <<now, uploads, editedContent>>
  /\ UNCHANGED dispatchVars
  /\ UNCHANGED engineVars

\* PDFEditor.handleSave after its awaits: onSave(blob), or the catch block.
PDFEditor_handleSaveSettle(s, ok, size) ==
  /\ BagIn(s, saves)
  /\ s.kind = "PDFEditor"
  /\ saves' = saves (-) SetToBag({s})
  /\ IF ok
       THEN handleFileSave(s.id, size)
       ELSE UNCHANGED <<nextUrl, revokeCount, uploadedFiles, selectedFile, selObj,
                        isEditing, editor, loads>>
  /\ lastOp' = Op("PDFEditor.handleSaveSettle", ok)
  /\ UNCHANGED <<now, uploads, editedContent>>
  /\ UNCHANGED dispatchVars
  /\ UNCHANGED engineVars

\* ImageEditor.handleSave: canvas.toBlob is called.
ImageEditor_handleSave ==
  /\ editor.kind = "ImageEditor"
  /\ BagCardinality(saves) < MaxSaves
  /\ FreeUrls >= 1
  /\ saves' = saves (+) SaveOf("ImageEditor", selectedFile[1].id)
  /\ lastOp' = Op("ImageEditor.handleSave", TRUE)
  /\ UNCHANGED <<now, nextUrl, revokeCount, uploadedFiles, selectedFile, selObj, uploads,
                 isEditing, editedContent, editor, loads>>
  /\ UNCHANGED dispatchVars
  /\ UNCHANGED engineVars

\* The callback of canvas.toBlob: onSave(blob) if a blob was produced (ok).
toBlobCallback(s, ok, size) ==
  /\ BagIn(s, saves)
  /\ s.kind = "ImageEditor"
  /\ saves' = saves (-) SetToBag({s})
  /\ IF ok
       THEN handleFileSave(s.id, size)
       ELSE UNCHANGED <<nextUrl, revokeCount, uploadedFiles, selectedFile, selObj,
                        isEditing, editor, loads>>
  /\ lastOp' = Op("toBlobCallback", ok)
  /\ UNCHANGED <<now, uploads, editedContent>>
  /\ UNCHANGED dispatchVars
  /\ UNCHANGED engineVars

\* ---------------------------------------------------------------- grid engine
\* A document is the array of arrays XLSX.utils.sheet_to_json(ws, {header: 1})
\* returns for its first sheet, and the container format of its bytes.
NoDocument == [format |-> "none", aoa |-> <<>>]

\* The JavaScript value undefined: an index past the end of an array, a key an object lacks.
Undefined == "<undefined>"

\* An array slot that was never assigned. XLSX.utils.sheet_to_json with
\* header: 1 assigns row[C] only for the cells the sheet holds, so a cell left
\* empty before the last filled cell of its row is such a slot.
Hole == "<hole>"

\* v || d for strings and undefined
Or(v, d) == IF v = Undefined \/ v = "" THEN d ELSE v

\* row[colIndex] of an array (the model counts from 1); reading a slot that was
\* never assigned gives undefined
At(row, i) == IF i \in 1..Len(row) /\ row[i] # Hole THEN row[i] ELSE Undefined

\* row[col.key] of a row object
Get(row, key) == IF key \in DOMAIN row THEN row[key] ELSE Undefined

\* `Column${n}`
ColumnKey(n) == "Column" \o ToString(n)

\* `Column ${n}`
ColumnName(n) == "Column " \o ToString(n)

\* loadExcelData: the columns configuration made from the header row.
\* The slot of a columns array that was never assigned, and the slot that
\* holds undefined ([...columns] turns the first into the second).
NoColumn == [key |-> Hole, name |-> Hole]

UndefinedColumn == [key |-> Undefined, name |-> Undefined]

\* loadExcelData: the columns configuration made from the header row;
\* Array.prototype.map leaves a slot that was never assigned as it is.
cols(headers) ==
  [i \in 1..Len(headers) |->
     IF headers[i] = Hole
       THEN NoColumn
       ELSE [key |-> Or(headers[i], ColumnKey(i)), name |-> Or(headers[i], ColumnName(i))]]

\* The positions of a columns array that hold a column object.
Defined(columnList) ==
  {i \in 1..Len(columnList) : columnList[i] \notin {NoColumn, UndefinedColumn}}

\* The keys columns.forEach(col => col.key) visits.
Keys(columnList) == {columnList[i].key : i \in Defined(columnList)}

\* col.key raises a TypeError for a slot that holds undefined.
Raises(columnList) == \E i \in 1..Len(columnList) : columnList[i] = UndefinedColumn

\* loadExcelData: one row object; headers.forEach assigns in column order, so
\* the last column of a key decides its value.
rowObj(headers, row, rowIndex) ==
  LET cl == cols(headers)
      last(k) == CHOOSE i \in Defined(cl) :
                   /\ cl[i].key = k
                   /\ \A j \in Defined(cl) : cl[j].key = k => j <= i
  IN [k \in {"id"} \cup Keys(cl) |->
        IF k \in Keys(cl) THEN Or(At(row, last(k)), "") ELSE rowIndex]

\* loadExcelData: the rows data made from the rows below the header row.
rowsData(headers, rows) == [r \in 1..Len(rows) |-> rowObj(headers, rows[r], r - 1)]

\* createEmptySpreadsheet
defaultColumns == [i \in 1..5 |-> [key |-> ColumnKey(i), name |-> ColumnName(i)]]

defaultRows ==
  [i \in 1..10 |->
     [k \in {"id"} \cup Keys(defaultColumns) |-> IF k \in Keys(defaultColumns) THEN "" ELSE i - 1]]

\* handleSave: the array of arrays given to XLSX.utils.aoa_to_sheet.
wsData(columnList, rows) ==
  <<[c \in 1..Len(columnList) |-> columnList[c].name]>>
  \o [r \in 1..Len(rows) |->
        [c \in 1..Len(columnList) |->
           IF columnList[c] = NoColumn THEN Hole
           ELSE Or(Get(rows[r], columnList[c].key), "")]]

\* What the grid actions leave alone.
GridFrame ==
  /\ UNCHANGED storeVars
  /\ UNCHANGED dispatchVars
  /\ UNCHANGED pdfVars
  /\ UNCHANGED sceneVars

Mounted == session \in {"loading", "loaded"}

\* ExcelEditor.loadExcelData from its first await on. outcome "decoded": fetch
\* and XLSX.read returned; outcome "throw": one of them raised.
ExcelEditor_loadExcelData(outcome) ==
  /\ session = "loading"
  /\ session' = "loaded"
  /\ IF outcome = "throw"
       THEN /\ columns' = defaultColumns
            /\ data' = defaultRows
     ELSE IF Len(sheet.aoa) > 0
       THEN /\ columns' = cols(sheet.aoa[1])
            /\ data' = rowsData(sheet.aoa[1], Tail(sheet.aoa))
     ELSE UNCHANGED <<columns, data>>
  /\ trail' = Append(trail, Op("loadExcelData", outcome # "throw"))
  /\ UNCHANGED <<sheet, exported, source, gridSteps>>
  /\ GridFrame

\* ExcelEditor.addRow; the handler ends at col.key of an undefined slot.
addRow ==
  /\ Mounted
  /\ gridSteps < MaxGridSteps
  /\ data' = IF Raises(columns)
               THEN data
               ELSE Append(data, [k \in {"id"} \cup Keys(columns) |->
                                    IF k \in Keys(columns) THEN "" ELSE Len(data)])
  /\ trail' = Append(trail, Op("addRow", ~Raises(columns)))
  /\ gridSteps' = gridSteps + 1
  /\ UNCHANGED <<sheet, session, columns, exported, source>>
  /\ GridFrame

\* [...columns]: the copy holds undefined where the array has an unassigned slot.
Spread(columnList) ==
  [i \in 1..Len(columnList) |->
     IF columnList[i] = NoColumn THEN UndefinedColumn ELSE columnList[i]]

\* ExcelEditor.addColumn without its setData call.
addColumn_NoBackfill ==
  /\ Mounted
  /\ gridSteps < MaxGridSteps
  /\ columns' = Append(Spread(columns), [key |-> ColumnKey(Len(columns) + 1),
                                         name |-> ColumnName(Len(columns) + 1)])
  /\ trail' = Append(trail, Op("addColumn", TRUE))
  /\ gridSteps' = gridSteps + 1
  /\ UNCHANGED <<sheet, session, data, exported, source>>
  /\ GridFrame

\* ExcelEditor.addColumn
addColumn ==
  LET newColumnKey == ColumnKey(Len(columns) + 1)
  IN /\ Mounted
     /\ gridSteps < MaxGridSteps
     /\ columns' = Append(Spread(columns),
                          [key |-> newColumnKey, name |-> ColumnName(Len(columns) + 1)])
     /\ data' = [r \in 1..Len(data) |->
                   [k \in DOMAIN data[r] \cup {newColumnKey} |->
                      IF k = newColumnKey THEN "" ELSE data[r][k]]]
     /\ trail' = Append(trail, Op("addColumn", TRUE))
     /\ gridSteps' = gridSteps + 1
     /\ UNCHANGED <<sheet, session, exported, source>>
     /\ GridFrame

\* ExcelEditor.deleteRow (the component defines it; no control calls it)
deleteRow(rowIndex) ==
  /\ Mounted
  /\ gridSteps < MaxGridSteps
  /\ rowIndex \in 1..Len(data)
  /\ data' = SubSeq(data, 1, rowIndex - 1) \o SubSeq(data, rowIndex + 1, Len(data))
  /\ trail' = Append(trail, Op("deleteRow", TRUE))
  /\ gridSteps' = gridSteps + 1
  /\ UNCHANGED <<sheet, session, columns, exported, source>>
  /\ GridFrame

\* ExcelEditor.handleRowsChange with the rows the DataGrid passes after a cell
\* edit: the edited row is {...row, [column.key]: text}.
handleRowsChange(rowIndex, colIndex, text) ==
  /\ Mounted
  /\ gridSteps < MaxGridSteps
  /\ rowIndex \in 1..Len(data)
  /\ colIndex \in Defined(columns)
  /\ data' = [data EXCEPT ![rowIndex] =
                [k \in DOMAIN data[rowIndex] \cup {columns[colIndex].key} |->
                   IF k = columns[colIndex].key THEN text ELSE data[rowIndex][k]]]
  /\ trail' = Append(trail, Op("handleRowsChange", TRUE))
  /\ gridSteps' = gridSteps + 1
  /\ UNCHANGED <<sheet, session, columns, exported, source>>
  /\ GridFrame

\* The session whose only step so far is a load that produced a header row.
Pristine == trail = <<Op("loadExcelData", TRUE)>> /\ Len(sheet.aoa) > 0

\* ExcelEditor.handleSave seen from the grid: XLSX.write with bookType 'xlsx',
\* then onSave(blob), after which FileViewer.handleFileSave leaves edit mode and
\* the component unmounts; the catch block changes nothing, also when col.name
\* raised for an undefined slot of columns.
ExcelEditor_handleSaveWorkbook(ok) ==
  /\ Mounted
  /\ IF ok /\ ~Raises(columns)
       THEN /\ exported' = [format |-> "xlsx", aoa |-> wsData(columns, data)]
            /\ source' = IF Pristine THEN sheet ELSE NoDocument
            /\ session' = "closed"
            /\ trail' = Append(trail, Op("handleSave", TRUE))
       ELSE UNCHANGED <<exported, source, session, trail>>
  /\ UNCHANGED <<sheet, columns, data, gridSteps>>
  /\ GridFrame

\* FileViewer.handleEdit on the saved record: a new ExcelEditor mounts with its
\* useState initial values and its effect starts loadExcelData on the new URL.
ExcelEditor_mount ==
  /\ session = "closed"
  /\ exported # NoDocument
  /\ sheet' = exported
  /\ session' = "loading"
  /\ columns' = <<>>
  /\ data' = <<>>
  /\ trail' = <<>>
  /\ UNCHANGED <<exported, source, gridSteps>>
  /\ GridFrame

\* No ExcelEditor is mounted.
GridIdle ==
  /\ sheet = NoDocument
  /\ session = "closed"
  /\ columns = <<>>
  /\ data = <<>>
  /\ exported = NoDocument
  /\ source = NoDocument
  /\ trail = <<>>
  /\ gridSteps = 0

\* ---------------------------------------------------------------- paginated engine
\* Lengths on screen are CSS pixels. A scale is counted in quarters (1.5 is 6),
\* the step of the zoom buttons; a page-space coordinate is the exact quotient
\* [num, den] of the division by the scale.
ScaleUnit == 4

InitialScale == 6

MinScale == 2

MaxScale == 12

\* The height of a canvas element that was never sized.
DefaultCanvasHeight == 150

Max(a, b) == IF a >= b THEN a ELSE b

Min(a, b) == IF a <= b THEN a ELSE b

RatEq(a, b) == a.num * b.den = b.num * a.den

Whole(n) == [num |-> n, den |-> 1]

\* page.getViewport({scale}).height in quarters of a pixel
viewportHeight(file, s) == file.height * s

\* canvas.height = viewport.height: the attribute is an integer, the fraction is dropped.
canvasHeightFor(file, s) == viewportHeight(file, s) \div ScaleUnit

\* useState initial values of PDFEditor, its canvas and its load effect.
InitialPdfEditor ==
  [mounted |-> TRUE, loading |-> TRUE, pdfDoc |-> <<>>, currentPage |-> 1, totalPages |-> 0,
   annotations |-> <<>>, selectedTool |-> "text", scale |-> InitialScale,
   canvasHeight |-> DefaultCanvasHeight]

PdfFrame ==
  /\ UNCHANGED storeVars
  /\ UNCHANGED dispatchVars
  /\ UNCHANGED gridVars
  /\ UNCHANGED sceneVars

\* PDFEditor.renderAnnotations: where the canvas shows each annotation.
renderAnnotations(anns, s, file) ==
  [i \in 1..Len(anns) |->
     [x |-> [num |-> anns[i].x.num * s, den |-> anns[i].x.den * ScaleUnit],
      y |-> [num |-> viewportHeight(file, s) * anns[i].y.den - anns[i].y.num * s,
             den |-> ScaleUnit * anns[i].y.den]]]

\* A renderPage call waiting for pdfDoc.getPage, with the state of the render
\* that started it.
PageRequest(ed) == <<[currentPage |-> ed.currentPage, scale |-> ed.scale]>>

\* PDFEditor.loadPDF from its await on; setting pdfDoc runs the render effect.
PDFEditor_loadPDF(ok) ==
  /\ pdfEditor.mounted
  /\ pdfEditor.loading
  /\ LET ed == IF ok
                 THEN [pdfEditor EXCEPT !.loading = FALSE, !.pdfDoc = <<pdfFile>>,
                                        !.totalPages = pdfFile.numPages, !.currentPage = 1]
                 ELSE [pdfEditor EXCEPT !.loading = FALSE]
     IN /\ pdfEditor' = ed
        /\ rendering' = IF ok THEN PageRequest(ed) ELSE rendering
  /\ UNCHANGED <<pdfFile, pdfSaves, pdfSaved>>
  /\ PdfFrame

\* PDFEditor.renderPage from its first await on: the canvas takes the height of
\* the viewport, the page and the annotations are drawn. getPage rejects for a
\* page number the document does not have and the canvas stays as it is.
renderPage ==
  /\ pdfEditor.mounted
  /\ rendering # <<>>
  /\ rendering' = <<>>
  /\ pdfEditor' = IF rendering[1].currentPage \in 1..pdfEditor.pdfDoc[1].numPages
                    THEN [pdfEditor EXCEPT !.canvasHeight =
                                             canvasHeightFor(pdfEditor.pdfDoc[1], rendering[1].scale)]
                    ELSE pdfEditor
  /\ UNCHANGED <<pdfFile, pdfSaves, pdfSaved>>
  /\ PdfFrame

\* The effect on [file.url]: the editor is given another document (FileViewer
\* renders the same PDFEditor for the document selected now) and loadPDF runs
\* again; every state of the component stays as it is until the load settles.
PDFEditor_fileChanged(file) ==
  /\ pdfEditor.mounted
  /\ ~pdfEditor.loading
  /\ file # pdfFile
  /\ pdfFile' = file
  /\ pdfEditor' = [pdfEditor EXCEPT !.loading = TRUE]
  /\ UNCHANGED <<rendering, pdfSaves, pdfSaved>>
  /\ PdfFrame

\* the tool buttons
setSelectedTool(tool) ==
  /\ pdfEditor.mounted
  /\ pdfEditor.selectedTool # tool
  /\ pdfEditor' = [pdfEditor EXCEPT !.selectedTool = tool]
  /\ UNCHANGED <<pdfFile, rendering, pdfSaves, pdfSaved>>
  /\ PdfFrame

\* PDFEditor.handleCanvasClick at the screen point P of the canvas. The fields
\* click, scale and page record the point, scale and page of the click; the
\* constant fields of the annotation (color, text, width, height) are left out.
handleCanvasClick(P) ==
  /\ pdfEditor.mounted
  /\ Len(pdfEditor.annotations) < MaxAnnotations
  /\ LET newAnnotation ==
           [id |-> now,
            type |-> pdfEditor.selectedTool,
            x |-> [num |-> P.x * ScaleUnit, den |-> pdfEditor.scale],
            y |-> [num |-> (pdfEditor.canvasHeight - P.y) * ScaleUnit, den |-> pdfEditor.scale],
            click |-> P,
            scale |-> pdfEditor.scale,
            page |-> pdfEditor.currentPage]
     IN pdfEditor' = [pdfEditor EXCEPT !.annotations = Append(@, newAnnotation)]
  /\ UNCHANGED <<pdfFile, rendering, pdfSaves, pdfSaved>>
  /\ PdfFrame

\* The state update of a zoom or page button, then the render effect on
\* [pdfDoc, currentPage, scale]. A new page is fetched before it is drawn. A
\* zoom on the page the canvas shows finds the page fetched and resizes the
\* canvas before the next event; a zoom while a page is being fetched restarts
\* renderPage with the new scale.
SetView(ed) ==
  /\ IF ed.pdfDoc = <<>> \/ (ed.scale = pdfEditor.scale /\ ed.currentPage = pdfEditor.currentPage)
       THEN /\ pdfEditor' = ed
            /\ rendering' = rendering
     ELSE IF ed.currentPage # pdfEditor.currentPage \/ rendering # <<>>
       THEN /\ pdfEditor' = ed
            /\ rendering' = PageRequest(ed)
     ELSE /\ pdfEditor' = IF ed.currentPage \in 1..ed.pdfDoc[1].numPages
                            THEN [ed EXCEPT !.canvasHeight = canvasHeightFor(ed.pdfDoc[1], ed.scale)]
                            ELSE ed
          /\ rendering' = rendering
  /\ UNCHANGED <<pdfFile, pdfSaves, pdfSaved>>
  /\ PdfFrame

\* the - button: setScale(prev => Math.max(0.5, prev - 0.25))
zoomOut ==
  /\ pdfEditor.mounted
  /\ SetView([pdfEditor EXCEPT !.scale = Max(MinScale, @ - 1)])

\* the + button: setScale(prev => Math.min(3, prev + 0.25))
zoomIn ==
  /\ pdfEditor.mounted
  /\ SetView([pdfEditor EXCEPT !.scale = Min(MaxScale, @ + 1)])

\* the Previous button, disabled when currentPage <= 1
previousPage ==
  /\ pdfEditor.mounted
  /\ ~(pdfEditor.currentPage <= 1)
  /\ SetView([pdfEditor EXCEPT !.currentPage = Max(1, @ - 1)])

\* the Next button, disabled when currentPage >= totalPages
nextPage ==
  /\ pdfEditor.mounted
  /\ ~(pdfEditor.currentPage >= pdfEditor.totalPages)
  /\ SetView([pdfEditor EXCEPT !.currentPage = Min(pdfEditor.totalPages, @ + 1)])

\* PDFEditor.handleSave up to its first await: the handler keeps the
\* currentPage and annotations of the render it was created in.
PDFEditor_handleSaveStart ==
  /\ pdfEditor.mounted
  /\ pdfSaves = <<>>
  /\ pdfSaves' = <<[currentPage |-> pdfEditor.currentPage, annotations |-> pdfEditor.annotations]>>
  /\ UNCHANGED <<pdfFile, pdfEditor, rendering, pdfSaved>>
  /\ PdfFrame

\* PDFEditor.handleSave after its awaits. ok: fetch, PDFDocument.load and
\* pdfDoc.save returned. pages[currentPage - 1] is undefined for a page the
\* document does not have, and drawing on it raises; with no annotation nothing
\* is drawn. onSave(blob) ends the edit session (FileViewer.handleFileSave).
PDFEditor_handleSaveFinish(ok) ==
  /\ pdfSaves # <<>>
  /\ pdfSaves' = <<>>
  /\ LET s == pdfSaves[1]
         hasPage == s.currentPage \in 1..pdfFile.numPages
     IN IF ok /\ (hasPage \/ s.annotations = <<>>)
          THEN /\ pdfSaved' = <<[page |-> s.currentPage, drawn |-> s.annotations]>>
               /\ pdfEditor' = [pdfEditor EXCEPT !.mounted = FALSE]
               /\ rendering' = <<>>
          ELSE UNCHANGED <<pdfSaved, pdfEditor, rendering>>
  /\ UNCHANGED pdfFile
  /\ PdfFrame

\* No PDFEditor is mounted.
PdfIdle ==
  /\ pdfFile = [numPages |-> 0, height |-> 0]
  /\ pdfEditor = [InitialPdfEditor EXCEPT !.mounted = FALSE, !.loading = FALSE]
  /\ rendering = <<>>
  /\ pdfSaves = <<>>
  /\ pdfSaved = <<>>

\* ---------------------------------------------------------------- scene engine
\* An ImageEditor right after mount: useState initial values and the
\* fabric.Canvas its effect creates (isDrawingMode false, selection true), with
\* fabric.Image.fromURL under way. created counts the objects added to the
\* canvas, op is the last step taken, removed the number of objects the last
\* deleteSelected took out.
InitialScene ==
  [mounted |-> TRUE, loading |-> TRUE, imageLoaded |-> FALSE, objects |-> <<>>,
   activeObjects |-> {}, selectedTool |-> "select", isDrawingMode |-> FALSE,
   selection |-> TRUE, created |-> 0, op |-> "mount", removed |-> 0]

SceneFrame ==
  /\ UNCHANGED storeVars
  /\ UNCHANGED dispatchVars
  /\ UNCHANGED gridVars
  /\ UNCHANGED pdfVars

\* The effect on [canvas, selectedTool, brushColor, brushWidth]
ToolConfig(ed, tool) ==
  [ed EXCEPT !.selectedTool = tool,
             !.isDrawingMode = (tool = "brush"),
             !.selection = (tool = "select")]

\* The ids of the objects of a canvas.
ObjectIds(objects) == {objects[i].id : i \in 1..Len(objects)}

\* The objects a pointer can select.
Selectable(objects) == {objects[i].id : i \in {j \in 1..Len(objects) : objects[j].selectable}}

\* canvas.add(object) of a new fabric object (selectable unless set otherwise)
NewObject(ed, kind, selectable) ==
  [id |-> ed.created + 1, kind |-> kind, selectable |-> selectable, angle |-> 0]

\* The callback of fabric.Image.fromURL with selectable left at its default.
ImageEditor_fromURLCallback_Selectable(ok) ==
  /\ imageEditor.mounted
  /\ imageEditor.loading
  /\ imageEditor' =
       IF ok
         THEN [imageEditor EXCEPT !.loading = FALSE, !.imageLoaded = TRUE,
                                  !.objects = <<NewObject(imageEditor, "image", TRUE)>> \o @,
                                  !.created = @ + 1, !.op = "fromURL", !.removed = 0]
         ELSE [imageEditor EXCEPT !.loading = FALSE, !.op = "fromURL", !.removed = 0]
  /\ SceneFrame

\* The callback of fabric.Image.fromURL without its sendToBack call.
ImageEditor_fromURLCallback_NoSendToBack(ok) ==
  /\ imageEditor.mounted
  /\ imageEditor.loading
  /\ imageEditor' =
       IF ok
         THEN [imageEditor EXCEPT !.loading = FALSE, !.imageLoaded = TRUE,
                                  !.objects = Append(@, NewObject(imageEditor, "image", FALSE)),
                                  !.created = @ + 1, !.op = "fromURL", !.removed = 0]
         ELSE [imageEditor EXCEPT !.loading = FALSE, !.op = "fromURL", !.removed = 0]
  /\ SceneFrame

\* The callback ImageEditor passes to fabric.Image.fromURL, on the canvas of
\* the effect that started the load: img.set({selectable: false}),
\* fabricCanvas.add(img), fabricCanvas.sendToBack(img). ok: the image arrived.
ImageEditor_fromURLCallback(ok) ==
  /\ imageEditor.mounted
  /\ imageEditor.loading
  /\ imageEditor' =
       IF ok
         THEN [imageEditor EXCEPT !.loading = FALSE, !.imageLoaded = TRUE,
                                  !.objects = <<NewObject(imageEditor, "image", FALSE)>> \o @,
                                  !.created = @ + 1, !.op = "fromURL", !.removed = 0]
         ELSE [imageEditor EXCEPT !.loading = FALSE, !.op = "fromURL", !.removed = 0]
  /\ SceneFrame

\* The effect on [file.url]: the cleanup disposes the canvas, a new
\* fabric.Canvas is made and the image of the new document is requested; the
\* callback of the load under way returns at its contextContainer test.
ImageEditor_fileChanged ==
  /\ imageEditor.mounted
  /\ imageEditor' = [ToolConfig(InitialScene, imageEditor.selectedTool) EXCEPT !.op = "fileChanged", !.removed = 0]
  /\ SceneFrame

\* the Select and Brush buttons
ImageEditor_setSelectedTool(tool) ==
  /\ imageEditor.mounted
  /\ imageEditor.selectedTool # tool
  /\ imageEditor' = [ToolConfig(imageEditor, tool) EXCEPT !.op = "setSelectedTool", !.removed = 0]
  /\ SceneFrame

\* ImageEditor.handleToolClick of the Add Text, Add Rectangle and Add Circle
\* buttons: setSelectedTool(tool), then addText, addRectangle or addCircle:
\* canvas.add(object), canvas.setActiveObject(object).
handleToolClick(tool) ==
  /\ imageEditor.mounted
  /\ imageEditor.created < MaxObjects
  /\ LET object == NewObject(imageEditor, tool, TRUE)
     IN imageEditor' = [ToolConfig(imageEditor, tool) EXCEPT
                          !.objects = Append(@, object),
                          !.activeObjects = {object.id},
                          !.created = @ + 1,
                          !.op = "handleToolClick", !.removed = 0]
  /\ SceneFrame

\* A pointer gesture on the canvas outside drawing mode: a click on a
\* selectable object, or a drag over several where canvas.selection allows it.
mouseSelect(ids) ==
  /\ imageEditor.mounted
  /\ ~imageEditor.isDrawingMode
  /\ ids # {}
  /\ ids \subseteq Selectable(imageEditor.objects)
  /\ Cardinality(ids) > 1 => imageEditor.selection
  /\ ids # imageEditor.activeObjects
  /\ imageEditor' = [imageEditor EXCEPT !.activeObjects = ids, !.op = "mouseSelect", !.removed = 0]
  /\ SceneFrame

\* A click outside every selectable object, outside drawing mode.
mouseDiscard ==
  /\ imageEditor.mounted
  /\ ~imageEditor.isDrawingMode
  /\ imageEditor.activeObjects # {}
  /\ imageEditor' = [imageEditor EXCEPT !.activeObjects = {}, !.op = "mouseDiscard", !.removed = 0]
  /\ SceneFrame

\* A stroke in drawing mode: the pointer going down discards the active
\* object, the pointer going up adds the path.
freeDrawing ==
  /\ imageEditor.mounted
  /\ imageEditor.isDrawingMode
  /\ imageEditor.created < MaxObjects
  /\ imageEditor' = [imageEditor EXCEPT
                       !.objects = Append(@, NewObject(imageEditor, "path", TRUE)),
                       !.activeObjects = {},
                       !.created = @ + 1,
                       !.op = "freeDrawing", !.removed = 0]
  /\ SceneFrame

\* ImageEditor.rotateImage: the active object, one object or the group of the
\* selected ones, is turned by 90 degrees.
rotateImage ==
  /\ imageEditor.mounted
  /\ imageEditor.activeObjects # {}
  /\ \A i \in 1..Len(imageEditor.objects) :
       imageEditor.objects[i].id \in imageEditor.activeObjects
         => imageEditor.objects[i].angle < 90 * MaxTurns
  /\ imageEditor' = [imageEditor EXCEPT
                       !.objects = [i \in 1..Len(@) |->
                                      IF @[i].id \in imageEditor.activeObjects
                                        THEN [@[i] EXCEPT !.angle = @ + 90]
                                        ELSE @[i]],
                       !.op = "rotateImage", !.removed = 0]
  /\ SceneFrame

\* Whether deleteSelected removes the object.
Removed(object) == object.id \in imageEditor.activeObjects

\* ImageEditor.deleteSelected: canvas.remove of every active object, then
\* canvas.discardActiveObject.
deleteSelected ==
  /\ imageEditor.mounted
  /\ imageEditor.activeObjects # {}
  /\ imageEditor' = [imageEditor EXCEPT
                       !.objects = SelectSeq(@, LAMBDA object : ~Removed(object)),
                       !.activeObjects = {},
                       !.op = "deleteSelected",
                       !.removed = Cardinality(imageEditor.activeObjects)]
  /\ SceneFrame

\* No ImageEditor is mounted.
SceneIdle == imageEditor = [InitialScene EXCEPT !.mounted = FALSE, !.loading = FALSE]

EnginesIdle == GridIdle /\ PdfIdle /\ SceneIdle

\* ---------------------------------------------------------------- specifications
Init ==
  /\ now = 0
  /\ nextUrl = 1
  /\ revokeCount = <<>>
  /\ uploadedFiles = <<>>
  /\ selectedFile = <<>>
  /\ selObj = 0
  /\ uploads = {}
  /\ isEditing = FALSE
  /\ editedContent = ""
  /\ editor = InitialEditor("none")
  /\ loads = EmptyBag
  /\ saves = EmptyBag
  /\ lastOp = NoOp
  /\ dType = ""
  /\ dName = ""
  /\ dResult = "unset"
  /\ dView = "unset"
  /\ EnginesIdle


\* The document lists left by one batch of two files uploaded at clock reading 0.
Workspaces ==
  {<<NewFile(f, 0, 0, 1, f.text), NewFile(g, 0, 1, 2, g.text)>> : f, g \in UploadFiles}

InitEdit ==
  /\ now = 0
  /\ uploadedFiles \in Workspaces
  /\ nextUrl = Len(uploadedFiles) + 1
  /\ revokeCount = [h \in 1..Len(uploadedFiles) |-> 0]
  /\ selectedFile = <<>>
  /\ selObj = 0
  /\ uploads = {}
  /\ isEditing = FALSE
  /\ editedContent = ""
  /\ editor = InitialEditor("none")
  /\ loads = EmptyBag
  /\ saves = EmptyBag
  /\ lastOp = NoOp
  /\ dType = ""
  /\ dName = ""
  /\ dResult = "unset"
  /\ dView = "unset"
  /\ EnginesIdle

Ids == {FileId(t, i) : t \in 0..MaxClock, i \in 0..(MaxFiles - 1)}

ExcelOutcomes == {"rows", "empty", "throw"}

\* The Sidebar and the clock: uploads, selection, deletion.
NextStore ==
  \/ \E files \in Batches : handleFileUpload(files)
  \/ \E u \in uploads, textOk \in BOOLEAN : handleFileUploadResume(u, textOk)
  \/ Tick
  \/ \E i \in 1..Len(uploadedFiles) : handleFileSelect(i)
  \/ handleCloseViewer
  \/ \E id \in Ids : handleFileDelete(id)

\* The FileViewer and its editors.
NextEdit ==
  \/ \E i \in 1..Len(uploadedFiles) : handleFileSelect(i)
  \/ handleCloseViewer
  \/ \E id \in Ids : handleFileDelete(id)
  \/ handleEdit
  \/ Cancel
  \/ \E l \in BagToSet(loads), outcome \in ExcelOutcomes : loadExcelData(l, outcome)
  \/ \E l \in BagToSet(loads), ok \in BOOLEAN : loadPDF(l, ok)
  \/ \E l \in BagToSet(loads), ok \in BOOLEAN : fromURLCallback(l, ok)
  \/ \E ok \in BOOLEAN, size \in SaveSizes : ExcelEditor_handleSave(ok, size)
  \/ PDFEditor_handleSave
  \/ \E s \in BagToSet(saves), ok \in BOOLEAN, size \in SaveSizes : PDFEditor_handleSaveSettle(s, ok, size)
  \/ ImageEditor_handleSave
  \/ \E s \in BagToSet(saves), ok \in BOOLEAN, size \in SaveSizes : toBlobCallback(s, ok, size)

\* The declared types and file names given to the dispatcher.
DeclaredTypes ==
  {"application/pdf", "image/png", "text/csv", "text/plain", "application/vnd.ms-excel",
   "application/x-sheet", "image/pdf", ""}

FileNames == {"a.pdf", "b.csv", "c.png", "d.txt", "e.xlsx", "f.xls", "csv", ""}

InitDispatch ==
  /\ now = 0
  /\ nextUrl = 1
  /\ revokeCount = <<>>
  /\ uploadedFiles = <<>>
  /\ selectedFile = <<>>
  /\ selObj = 0
  /\ uploads = {}
  /\ isEditing = FALSE
  /\ editedContent = ""
  /\ editor = InitialEditor("none")
  /\ loads = EmptyBag
  /\ saves = EmptyBag
  /\ lastOp = NoOp
  /\ dType \in DeclaredTypes
  /\ dName \in FileNames
  /\ dResult = "unset"
  /\ dView = "unset"
  /\ EnginesIdle

\* FileViewer renders the editor slot for a file with this type and name.
Dispatch ==
  /\ dResult = "unset"
  /\ dResult' = Strategy(renderEditor(dType, dName))
  /\ UNCHANGED <<dType, dName, dView>>
  /\ UNCHANGED storeVars
  /\ UNCHANGED engineVars

\* The view-mode render of FileViewer for the drawn (type, name).
View ==
  /\ dView = "unset"
  /\ dView' = Preview(renderViewer(dType, dName))
  /\ UNCHANGED <<dType, dName, dResult>>
  /\ UNCHANGED storeVars
  /\ UNCHANGED engineVars

NextDispatch == Dispatch \/ View

SpecStore == Init /\ [][NextStore]_vars

SpecEdit == InitEdit /\ [][NextEdit]_vars

SpecDispatch == InitDispatch /\ [][NextDispatch]_vars

\* The upload of the end-to-end scenario: b.csv with the text a,b / 1,2 / 3,4.
CsvUpload == [format |-> "csv", aoa |-> <<<<"a", "b">>, <<"1", "2">>, <<"3", "4">>>>]

\* The documents an ExcelEditor is opened on: the CSV upload, an empty first
\* sheet, a header row alone, duplicated headers, an empty header with a short
\* row and an empty cell, and headers of the form ColumnK.
Sheets ==
  {CsvUpload,
   [format |-> "xlsx", aoa |-> <<>>],
   [format |-> "xlsx", aoa |-> <<<<"a">>>>],
   [format |-> "xlsx", aoa |-> <<<<"a", "a">>, <<"1", "2">>>>],
   [format |-> "xlsx", aoa |-> <<<<"", "b">>, <<"1">>, <<"", "2">>>>],
   [format |-> "xlsx", aoa |-> <<<<"Column2">>, <<"1">>>>],
   [format |-> "xlsx", aoa |-> <<<<"a", "Column3">>, <<"1", "2">>>>],
   [format |-> "xlsx", aoa |-> <<<<"a", Hole, "c">>, <<Hole, "2", "3">>, <<"1">>>>]}

\* The texts typed into a cell.
CellTexts == {"x", ""}

\* An ExcelEditor has just mounted on a document; the store is out of the picture.
InitGrid ==
  /\ now = 0
  /\ nextUrl = 1
  /\ revokeCount = <<>>
  /\ uploadedFiles = <<>>
  /\ selectedFile = <<>>
  /\ selObj = 0
  /\ uploads = {}
  /\ isEditing = FALSE
  /\ editedContent = ""
  /\ editor = InitialEditor("none")
  /\ loads = EmptyBag
  /\ saves = EmptyBag
  /\ lastOp = NoOp
  /\ dType = ""
  /\ dName = ""
  /\ dResult = "unset"
  /\ dView = "unset"
  /\ sheet \in Sheets
  /\ session = "loading"
  /\ columns = <<>>
  /\ data = <<>>
  /\ exported = NoDocument
  /\ source = NoDocument
  /\ trail = <<>>
  /\ gridSteps = 0
  /\ PdfIdle
  /\ SceneIdle

\* The ExcelEditor: its load, its toolbar, the DataGrid and its save.
NextGrid ==
  \/ \E outcome \in {"decoded", "throw"} : ExcelEditor_loadExcelData(outcome)
  \/ addRow
  \/ addColumn
  \/ \E rowIndex \in {1, Len(data)} : deleteRow(rowIndex)
  \/ \E rowIndex \in {1, Len(data)}, colIndex \in {1, Len(columns)}, text \in CellTexts :
       handleRowsChange(rowIndex, colIndex, text)
  \/ \E ok \in BOOLEAN : ExcelEditor_handleSaveWorkbook(ok)
  \/ ExcelEditor_mount

SpecGrid == InitGrid /\ [][NextGrid]_vars

\* The documents a PDFEditor is opened on: two pages whose height gives a whole
\* number of pixels at every scale, one page whose height does not, no page.
PdfFiles ==
  {[numPages |-> 2, height |-> 792], [numPages |-> 1, height |-> 842], [numPages |-> 0, height |-> 0]}

\* The screen points clicked on the canvas.
ClickPoints == {[x |-> 30, y |-> 40]}

Tools == {"text", "rectangle", "circle"}

\* A PDFEditor has just mounted on a document; the store is out of the picture.
InitPdf ==
  /\ now = 0
  /\ nextUrl = 1
  /\ revokeCount = <<>>
  /\ uploadedFiles = <<>>
  /\ selectedFile = <<>>
  /\ selObj = 0
  /\ uploads = {}
  /\ isEditing = FALSE
  /\ editedContent = ""
  /\ editor = InitialEditor("none")
  /\ loads = EmptyBag
  /\ saves = EmptyBag
  /\ lastOp = NoOp
  /\ dType = ""
  /\ dName = ""
  /\ dResult = "unset"
  /\ dView = "unset"
  /\ GridIdle
  /\ pdfFile \in PdfFiles
  /\ pdfEditor = InitialPdfEditor
  /\ rendering = <<>>
  /\ pdfSaves = <<>>
  /\ pdfSaved = <<>>
  /\ SceneIdle

\* The PDFEditor at its initial scale: its load, its rendering, its tools, its
\* canvas, its page buttons and its save.
NextPdf ==
  \/ \E ok \in BOOLEAN : PDFEditor_loadPDF(ok)
  \/ \E file \in PdfFiles : PDFEditor_fileChanged(file)
  \/ renderPage
  \/ \E tool \in Tools : setSelectedTool(tool)
  \/ \E P \in ClickPoints : handleCanvasClick(P)
  \/ previousPage
  \/ nextPage
  \/ PDFEditor_handleSaveStart
  \/ \E ok \in BOOLEAN : PDFEditor_handleSaveFinish(ok)

SpecPdf == InitPdf /\ [][NextPdf]_vars

\* The PDFEditor on one page: its load, its rendering, its canvas and its zoom buttons.
NextZoom ==
  \/ \E ok \in BOOLEAN : PDFEditor_loadPDF(ok)
  \/ renderPage
  \/ \E P \in ClickPoints : handleCanvasClick(P)
  \/ zoomOut
  \/ zoomIn

SpecZoom == InitPdf /\ [][NextZoom]_vars

\* An ImageEditor has just mounted on an image; the store is out of the picture.
InitScene ==
  /\ now = 0
  /\ nextUrl = 1
  /\ revokeCount = <<>>
  /\ uploadedFiles = <<>>
  /\ selectedFile = <<>>
  /\ selObj = 0
  /\ uploads = {}
  /\ isEditing = FALSE
  /\ editedContent = ""
  /\ editor = InitialEditor("none")
  /\ loads = EmptyBag
  /\ saves = EmptyBag
  /\ lastOp = NoOp
  /\ dType = ""
  /\ dName = ""
  /\ dResult = "unset"
  /\ dView = "unset"
  /\ GridIdle
  /\ PdfIdle
  /\ imageEditor = InitialScene

ShapeTools == {"text", "rectangle", "circle"}

ModeTools == {"select", "brush"}

\* The ImageEditor: its image load, its toolbar and the pointer on its canvas.
NextScene ==
  \/ \E ok \in BOOLEAN : ImageEditor_fromURLCallback(ok)
  \/ ImageEditor_fileChanged
  \/ \E tool \in ModeTools : ImageEditor_setSelectedTool(tool)
  \/ \E tool \in ShapeTools : handleToolClick(tool)
  \/ \E ids \in SUBSET ObjectIds(imageEditor.objects) : mouseSelect(ids)
  \/ mouseDiscard
  \/ freeDrawing
  \/ rotateImage
  \/ deleteSelected

SpecScene == InitScene /\ [][NextScene]_vars

Next == NextStore \/ NextEdit \/ NextGrid \/ NextPdf \/ NextZoom \/ NextScene

Spec == Init /\ [][Next]_vars

\* ---------------------------------------------------------------- properties
RecordUrls(files) == {files[i].url : i \in 1..Len(files)}

RecordIds(files) == {files[i].id : i \in 1..Len(files)}

LiveUrls(rc) == {h \in DOMAIN rc : rc[h] = 0}

RemoveAt(files, i) == SubSeq(files, 1, i - 1) \o SubSeq(files, i + 1, Len(files))

SaveCompletions == {"ExcelEditor.handleSave", "PDFEditor.handleSaveSettle", "toBlobCallback"}

LoadCompletions == {"loadExcelData", "loadPDF", "fromURL"}

\* C1: whenever no upload is in progress, every record of the document list
\* references a live object URL, every live object URL is referenced by some
\* record, and no object URL has been revoked more than once.
C1_OneLiveHandlePerRecord ==
  uploads = {} =>
    /\ \A i \in 1..Len(uploadedFiles) : Live(uploadedFiles[i].url)
    /\ \A h \in LiveUrls(revokeCount) : h \in RecordUrls(uploadedFiles)
    /\ \A h \in DOMAIN revokeCount : revokeCount[h] <= 1

\* No record of the list and no selection snapshot references a revoked object URL.
NoReleasedReference ==
  /\ \A i \in 1..Len(uploadedFiles) : Live(uploadedFiles[i].url)
  /\ selectedFile # <<>> => Live(selectedFile[1].url)

\* A step that creates object URLs leaves them live and revokes only older ones.
AllocateBeforeRelease ==
  \A h \in DOMAIN revokeCount' :
    h \notin DOMAIN revokeCount => /\ revokeCount'[h] = 0
                                   /\ \A g \in DOMAIN revokeCount :
                                        revokeCount'[g] > revokeCount[g] => g < h

\* C2: a replace allocates the new object URL before it releases the old one, and
\* in no reachable state does a record of the list or the selection snapshot
\* reference an object URL that has been released.
C2_AllocateThenRelease == [](NoReleasedReference) /\ [][AllocateBeforeRelease]_vars

\* C3: the completion of a load that was started for a document other than the
\* one now selected leaves the working state of the editor untouched.
C3_StaleLoadDiscarded ==
  [][\A l \in BagToSet(loads) :
       ( /\ lastOp'.op \in LoadCompletions
         /\ loads' = Settled(l)
         /\ (selectedFile = <<>> \/ selectedFile[1].id # l.id) )
       => editor' = editor]_vars

\* C4: the completion of a save that was started for a document other than the
\* one now selected (or when nothing is selected) changes neither the selection
\* snapshot, nor the view/edit mode, nor the records of other documents, and
\* leaves no live object URL that no record references.
C4_StaleSaveDiscarded ==
  [][\A s \in BagToSet(saves) :
       ( /\ lastOp'.op \in SaveCompletions
         /\ saves' = saves (-) SetToBag({s})
         /\ (selectedFile = <<>> \/ selectedFile[1].id # s.id) )
       => /\ selectedFile' = selectedFile
          /\ isEditing' = isEditing
          /\ Len(uploadedFiles') = Len(uploadedFiles)
          /\ \A i \in 1..Len(uploadedFiles) :
               uploadedFiles[i].id # s.id => uploadedFiles'[i] = uploadedFiles[i]
          /\ \A h \in LiveUrls(revokeCount') :
               \/ h \in RecordUrls(uploadedFiles')
               \/ (h \in LiveUrls(revokeCount) /\ h \notin RecordUrls(uploadedFiles))]_vars

\* What delete(id) is to do to the list, the object URLs and the selection.
DeletePost(id) ==
  IF id \in RecordIds(uploadedFiles)
    THEN /\ \E i \in 1..Len(uploadedFiles) :
              /\ uploadedFiles[i].id = id
              /\ uploadedFiles' = RemoveAt(uploadedFiles, i)
              /\ revokeCount' = revokeObjectURL(revokeCount, uploadedFiles[i].url)
         /\ selectedFile' = IF selectedFile # <<>> /\ selectedFile[1].id = id
                              THEN <<>> ELSE selectedFile
    ELSE UNCHANGED <<uploadedFiles, selectedFile, revokeCount>>

\* C5: delete(id) of a listed id releases that record's object URL, removes
\* exactly that record and clears the selection iff it pointed at the id;
\* delete(id) of an unlisted id changes neither list, selection nor object URLs.
C5_DeleteFrame == [][\A id \in Ids : handleFileDelete(id) => DeletePost(id)]_vars

\* C6: a replace for an id that is not in the list leaves the list, the selection
\* and the set of live object URLs as they were.
C6_ReplaceUnknownIsNoOp ==
  [][\A id \in Ids, size \in SaveSizes :
       (handleFileSave(id, size) /\ id \notin RecordIds(uploadedFiles))
       => /\ uploadedFiles' = uploadedFiles
          /\ selectedFile' = selectedFile
          /\ LiveUrls(revokeCount') = LiveUrls(revokeCount)]_vars

\* What replace(id, newBytes) of a listed id is to do to the list and the selection.
ReplacePost(id, size) ==
  /\ Len(uploadedFiles') = Len(uploadedFiles)
  /\ \A i \in 1..Len(uploadedFiles) :
       IF uploadedFiles[i].id = id
         THEN uploadedFiles'[i] = [uploadedFiles[i] EXCEPT !.url = uploadedFiles'[i].url,
                                                           !.size = size]
         ELSE uploadedFiles'[i] = uploadedFiles[i]
  /\ IF selectedFile # <<>> /\ selectedFile[1].id = id
       THEN /\ selectedFile' # <<>>
            /\ \A i \in 1..Len(uploadedFiles) :
                 uploadedFiles[i].id = id =>
                   /\ selectedFile'[1].url = uploadedFiles'[i].url
                   /\ selectedFile'[1].size = uploadedFiles'[i].size
       ELSE selectedFile' = selectedFile

\* C7: a replace for a listed id changes only the object URL and size of that
\* record; the selection snapshot follows the record when that document is
\* selected and is unchanged when another document is selected.
C7_ReplaceFrame ==
  [][\A id \in Ids, size \in SaveSizes :
       (handleFileSave(id, size) /\ id \in RecordIds(uploadedFiles))
       => ReplacePost(id, size)]_vars

\* C8: a failed export (grid export, PDF export or image flatten) issues no
\* replace: list, selection, object URLs and view/edit mode are unchanged, and
\* after a failed grid export the shell is in edit mode.
C8_FailedExportChangesNothing ==
  [][(lastOp'.op \in SaveCompletions /\ ~lastOp'.ok)
       => /\ UNCHANGED <<uploadedFiles, selectedFile, nextUrl, revokeCount, isEditing>>
          /\ lastOp'.op = "ExcelEditor.handleSave" => isEditing']_vars

\* A PDF export has just failed while its document is still open in edit mode.
C8_Witness ==
  /\ lastOp = Op("PDFEditor.handleSaveSettle", FALSE)
  /\ isEditing
  /\ editor.kind = "PDFEditor"
  /\ selectedFile # <<>>
  /\ \E i \in 1..Len(uploadedFiles) :
       /\ uploadedFiles[i] = selectedFile[1]
       /\ Live(uploadedFiles[i].url)

\* C9: no two records of the document list have the same id.
C9_UniqueIds ==
  \A i, j \in 1..Len(uploadedFiles) : i # j => uploadedFiles[i].id # uploadedFiles[j].id

\* C10: a declared type that matches one of the paginated, image and tabular
\* types decides the strategy whatever the file name; the .xlsx/.xls/.csv
\* extension selects Grid only when the type matches none of the three.
C10_TypeBeatsName ==
  LET paginated == includes(dType, "pdf")
      image == includes(dType, "image")
      tabular == includes(dType, "sheet") \/ includes(dType, "excel")
      extension == endsWith(dName, ".xlsx") \/ endsWith(dName, ".xls") \/ endsWith(dName, ".csv")
  IN dResult # "unset" =>
       /\ (paginated /\ ~image /\ ~tabular) => dResult = "PaginatedDoc"
       /\ (image /\ ~paginated /\ ~tabular) => dResult = "Scene"
       /\ (tabular /\ ~paginated /\ ~image) => dResult = "Grid"
       /\ (~paginated /\ ~image /\ ~tabular) => (dResult = "Grid" <=> extension)

\* C11: dispatch gives every (declaredType, fileName) exactly one of the four
\* strategies, and PlainText exactly when the type contains none of pdf, sheet,
\* excel, image and the name ends with none of .xlsx, .xls, .csv.
C11_DispatchTotal ==
  dResult # "unset" =>
    /\ dResult \in {"PaginatedDoc", "Grid", "Scene", "PlainText"}
    /\ dResult = "PlainText" <=>
         /\ ~includes(dType, "pdf")
         /\ ~includes(dType, "sheet")
         /\ ~includes(dType, "excel")
         /\ ~includes(dType, "image")
         /\ ~endsWith(dName, ".xlsx")
         /\ ~endsWith(dName, ".xls")
         /\ ~endsWith(dName, ".csv")

C11_Witness == dResult = "PlainText" /\ dType = "text/plain" /\ dName = "d.txt"

Entries(t) == {t[i] : i \in 1..Len(t)}

\* C12: every row of the grid has an entry for every current column key, after
\* the load and after any addRow, addColumn, deleteRow and cell edit.
C12_GridComplete ==
  \A r \in 1..Len(data), c \in Defined(columns) : columns[c].key \in DOMAIN data[r]

C12_Witness ==
  /\ session = "loaded"
  /\ {Op("loadExcelData", TRUE), Op("addRow", TRUE), Op("addColumn", TRUE),
      Op("handleRowsChange", TRUE)} \subseteq Entries(trail)
  /\ Len(data) > 1
  /\ Len(columns) > 1

\* C13: addColumn appends one column whose key no existing column has, gives
\* every existing row the empty string under it, and leaves every cell of every
\* existing column as it was.
C13_AddColumnFresh ==
  [][addColumn =>
       LET newColumnKey == columns'[Len(columns')].key
       IN /\ Len(columns') = Len(columns) + 1
          /\ \A c \in Defined(columns) : columns'[c] = columns[c]
          /\ newColumnKey \notin Keys(columns)
          /\ Len(data') = Len(data)
          /\ \A r \in 1..Len(data) :
               /\ data'[r][newColumnKey] = ""
               /\ \A c \in Defined(columns) :
                    data'[r][columns[c].key] = data[r][columns[c].key]]_vars

\* C14: a grid d that is loaded, exported unedited and loaded again comes back
\* with d's header names in d's order and d's cell text in every row and column.
C14_GridRoundTrip ==
  (source # NoDocument /\ trail = <<Op("loadExcelData", TRUE)>>) =>
    LET d == source.aoa
    IN /\ Len(columns) = Len(d[1])
       /\ \A c \in 1..Len(columns) : columns[c].name = d[1][c]
       /\ Len(data) = Len(d) - 1
       /\ \A r \in 1..Len(data), c \in 1..Len(columns) :
            Get(data[r], columns[c].key) = Or(At(d[r + 1], c), "")

\* C15: a load that produces no header row (fetch or decode raised, or the
\* sheet is empty) leaves the blank grid of 5 columns and 10 rows.
C15_BlankRecovery ==
  (/\ trail # <<>>
   /\ trail[Len(trail)].op = "loadExcelData"
   /\ (~trail[Len(trail)].ok \/ Len(sheet.aoa) = 0)) =>
    /\ columns = defaultColumns
    /\ data = defaultRows

\* C16: the CSV upload a,b / 1,2 / 3,4 is dispatched to Grid, loads as columns
\* a, b with rows (1,2) and (3,4), and addRow then save produces a CSV document
\* of the header, the two data rows and one row of two empty cells.
C16_CsvScenario ==
  /\ Strategy(renderEditor("text/csv", "b.csv")) = "Grid"
  /\ (sheet = CsvUpload /\ trail = <<Op("loadExcelData", TRUE)>>) =>
       /\ [c \in 1..Len(columns) |-> columns[c].name] = <<"a", "b">>
       /\ wsData(columns, data) = CsvUpload.aoa
  /\ (/\ sheet = CsvUpload
      /\ trail = <<Op("loadExcelData", TRUE), Op("addRow", TRUE), Op("handleSave", TRUE)>>) =>
       exported = [format |-> "csv",
                   aoa |-> <<<<"a", "b">>, <<"1", "2">>, <<"3", "4">>, <<"", "">>>>]

GridMutations == {"addRow", "addColumn", "deleteRow", "handleRowsChange", "handleSave"}

\* C20: every mutation of a grid session (addRow, addColumn, deleteRow, cell
\* edit, save) comes after the session's load has settled.
C20_NoMutationWhileLoading ==
  \A i \in 1..Len(trail) :
    trail[i].op \in GridMutations => \E j \in 1..(i - 1) : trail[j].op = "loadExcelData"

\* The canvas shows the current page at the current scale.
Rendered ==
  /\ pdfEditor.pdfDoc # <<>>
  /\ rendering = <<>>
  /\ pdfEditor.currentPage \in 1..pdfEditor.pdfDoc[1].numPages

\* Every annotation placed at the current scale is shown at the point that was clicked.
ShownWhereClicked ==
  Rendered =>
    \A i \in 1..Len(pdfEditor.annotations) :
      LET a == pdfEditor.annotations[i]
          shown == renderAnnotations(pdfEditor.annotations, pdfEditor.scale, pdfEditor.pdfDoc[1])[i]
      IN a.scale = pdfEditor.scale =>
           /\ RatEq(shown.x, Whole(a.click.x))
           /\ RatEq(shown.y, Whole(a.click.y))

\* A change of the scale leaves the stored annotations as they are.
ZoomKeepsAnnotations ==
  pdfEditor'.scale # pdfEditor.scale => pdfEditor'.annotations = pdfEditor.annotations

\* C17: at every scale of the zoom buttons a clicked point converted to page
\* space by handleCanvasClick and back by renderAnnotations at the same scale
\* is the clicked point, and zooming does not change stored coordinates.
C17_CoordinateRoundTrip == [](ShownWhereClicked) /\ [][ZoomKeepsAnnotations]_vars

\* C18: the saved document holds annotations of the page active at save time
\* only: none that was placed while another page was active.
C18_OnlyActivePageSaved ==
  pdfSaved # <<>> =>
    \A i \in 1..Len(pdfSaved[1].drawn) : pdfSaved[1].drawn[i].page = pdfSaved[1].page

\* C19: saving a document of zero pages produces no bytes and calls no onSave,
\* with or without annotations.
C19_ZeroPagesNoSave == pdfFile.numPages = 0 => pdfSaved = <<>>

\* C30: view mode and edit mode classify every document the same way: for every
\* (declaredType, fileName) the preview chosen by renderViewer is of the same
\* format as the editing strategy chosen by renderEditor.
C30_ViewEditSameFormat ==
  (dResult # "unset" /\ dView # "unset") => dView = dResult

\* C29: selecting a document always opens it in view mode: edit mode is entered
\* only by Edit on the currently selected document, and after a close, a delete
\* of the selected document or the selection of a different document the shell
\* is in view mode.
C29_SelectOpensViewMode ==
  [][/\ (isEditing' /\ ~isEditing) => (handleEdit /\ selectedFile' = selectedFile)
     /\ ( /\ selectedFile' # selectedFile
          /\ \/ selectedFile' = <<>>
             \/ selectedFile = <<>>
             \/ selectedFile'[1].id # selectedFile[1].id )
        => ~isEditing']_vars

\* C28: if a document is selected then a record with the same id is in the list
\* and the selection snapshot has the handle and the byte size of that record.
C28_SnapshotConsistent ==
  selectedFile # <<>> =>
    \E i \in 1..Len(uploadedFiles) :
      /\ uploadedFiles[i].id = selectedFile[1].id
      /\ uploadedFiles[i].url = selectedFile[1].url
      /\ uploadedFiles[i].size = selectedFile[1].size

\* C21: the working state of an editor belongs to the document now shown: the
\* plain-text buffer holds the content of the selected document, the grid holds
\* rows read from the selected document (or none, or the blank grid), and the
\* paginated editor holds the page document of the selected document (or none).
C21_SessionOwnsWorkingState ==
  (isEditing /\ selectedFile # <<>>) =>
    /\ editor.kind = "TextArea" => editedContent = selectedFile[1].content
    /\ editor.kind = "ExcelEditor" => editor.data \in {0, Blank, selectedFile[1].url}
    /\ editor.kind = "PDFEditor" => editor.pdfDoc \in {0, selectedFile[1].url}

\* C23: in every reachable state of the paginated engine, before and after any
\* load, 1 <= currentPage <= totalPages and 0.5 <= scale <= 3.0.
C23_PageAndScaleInRange ==
  pdfEditor.mounted =>
    /\ 1 <= pdfEditor.currentPage
    /\ pdfEditor.currentPage <= pdfEditor.totalPages
    /\ MinScale <= pdfEditor.scale
    /\ pdfEditor.scale <= MaxScale

\* C24: a load of a decodable document sets totalPages to its page count and
\* currentPage to 1; a load of a malformed document leaves the engine with no
\* page document and totalPages 0, also after an earlier successful load.
C24_LoadOutcome ==
  [][/\ PDFEditor_loadPDF(TRUE) =>
          /\ pdfEditor'.pdfDoc = <<pdfFile>>
          /\ pdfEditor'.totalPages = pdfFile.numPages
          /\ pdfEditor'.currentPage = 1
     /\ PDFEditor_loadPDF(FALSE) =>
          /\ pdfEditor'.pdfDoc = <<>>
          /\ pdfEditor'.totalPages = 0]_vars

\* C27: loadExcelData maps the first row to the columns, naming the column at
\* position N 'Column N' when its header is empty, maps each further row to one
\* data row in the same order and gives every missing cell the empty string:
\* as many columns as the header row has cells, as many rows as data rows.
C27_ParseShape ==
  (/\ trail # <<>>
   /\ trail[Len(trail)] = Op("loadExcelData", TRUE)
   /\ Len(sheet.aoa) > 0) =>
    LET headers == sheet.aoa[1]
        rows == Tail(sheet.aoa)
    IN /\ Len(columns) = Len(headers)
       /\ \A c \in 1..Len(headers) :
            columns[c].name = IF headers[c] \in {"", Hole} THEN ColumnName(c) ELSE headers[c]
       /\ Len(data) = Len(rows)
       /\ \A r \in 1..Len(rows) :
            /\ data[r].id = r - 1
            /\ \A c \in 1..Len(headers) :
                 At(rows[r], c) = Undefined => Get(data[r], columns[c].key) = ""

\* The background image of the canvas is the object at index 0 and no other.
BackgroundAtBack ==
  \A i \in 1..Len(imageEditor.objects) :
    imageEditor.objects[i].kind = "image" => (i = 1 /\ ~imageEditor.objects[i].selectable)

\* C26: once the image load has completed, the background image is the object
\* at index 0 and is not selectable, whatever was added, drawn, rotated or
\* deleted before or after.
C26_BackgroundAtIndex0 ==
  /\ BackgroundAtBack
  /\ imageEditor.imageLoaded =>
       /\ Len(imageEditor.objects) >= 1
       /\ imageEditor.objects[1].kind = "image"

C26_Witness ==
  /\ imageEditor.imageLoaded
  /\ imageEditor.op \in {"deleteSelected", "rotateImage", "freeDrawing"}
  /\ Len(imageEditor.objects) >= 2
  /\ imageEditor.objects[1].kind = "image"
  /\ \E i \in 2..Len(imageEditor.objects) :
       imageEditor.objects[i].id < imageEditor.objects[1].id

\* C22: deleteSelected leaves the background image in the scene, removes every
\* selected object that is not the background, keeps the others in their
\* order and leaves the selection empty.
C22_DeleteKeepsBackground ==
  [][deleteSelected =>
       /\ imageEditor'.objects =
            SelectSeq(imageEditor.objects,
                      LAMBDA object : object.kind = "image"
                                        \/ object.id \notin imageEditor.activeObjects)
       /\ imageEditor'.activeObjects = {}]_vars

C22_Witness ==
  /\ imageEditor.op = "deleteSelected"
  /\ imageEditor.removed >= 2
  /\ Len(imageEditor.objects) = 1
  /\ imageEditor.objects[1].kind = "image"

\* C25: while the brush tool is active no object becomes selected, and rotate
\* and delete-selection requests change no object of the scene.
C25_BrushExcludesSelectionEditing ==
  [][imageEditor.selectedTool = "brush" =>
       /\ (rotateImage \/ deleteSelected) => imageEditor'.objects = imageEditor.objects
       /\ imageEditor'.selectedTool = "brush" =>
            imageEditor'.activeObjects \subseteq imageEditor.activeObjects]_vars

====
